---------------------------- MODULE Spec2Model ----------------------------
(***************************************************************************)
(* A model of the GUI plumbing of humanbonestructure:                      *)
(*   - Playback and MainWidget (main_widget.py): opening BVH files, the    *)
(*     tree mirror of the hierarchy, the lazily created docks and scene,   *)
(*     the Start button and the QTimeLine objects that drive set_frame;    *)
(*   - HandLandmark.estimate (formats/handlandmark.py): the camera         *)
(*     read-and-dispatch coroutine.                                        *)
(* Spec is the widget; SpecHand is the capture loop.                       *)
(***************************************************************************)
EXTENDS Integers, Sequences, FiniteSets, TLC

\* Successful MainWidget.open calls explored.
MaxOpens == 3
\* cap.read calls explored in HandLandmark.estimate.
MaxReads == 4

\* view.camera.projection.z_far *= 100 ; view.camera.view.distance *= 100
CameraScale == 100
\* QProgressBar's range before setRange is called (Qt default 0..100).
DefaultMaximum == 100

\* Python's None, for an attribute that holds an object (objects are numbered
\* from 1 in creation order) and for a path (a string).
None == 0
NoPath == "None"
NoParent == 0

Range(s) == {s[i] : i \in 1..Len(s)}

Last(s) == s[Len(s)]

-----------------------------------------------------------------------------
(* The files MainWidget.open is called with.  A Bvh is what                 *)
(* bvh_parser.parse returns, reduced to what main_widget.py reads: frames,  *)
(* root, and per node its name and children.  Node 3 of walk.bvh is a child *)
(* with an empty name that has a named child of its own.                    *)

WalkBvh ==
    [frames |-> 2, root |-> 1,
     nodes |-> [n \in 1..6 |->
                  CASE n = 1 -> [name |-> "Hips", children |-> <<2, 5>>]
                    [] n = 2 -> [name |-> "Spine", children |-> <<3, 4>>]
                    [] n = 3 -> [name |-> "", children |-> <<6>>]
                    [] n = 4 -> [name |-> "Head", children |-> <<>>]
                    [] n = 5 -> [name |-> "LeftLeg", children |-> <<>>]
                    [] n = 6 -> [name |-> "Toe", children |-> <<>>]]]

PoseBvh ==
    [frames |-> 1, root |-> 1,
     nodes |-> [n \in 1..3 |->
                  CASE n = 1 -> [name |-> "Root", children |-> <<2, 3>>]
                    [] n = 2 -> [name |-> "", children |-> <<>>]
                    [] n = 3 -> [name |-> "Arm", children |-> <<>>]]]

Paths == {"walk.bvh", "pose.bvh", "missing.bvh"}

FileSystem ==
    [p \in {"walk.bvh", "pose.bvh"} |->
        IF p = "walk.bvh" THEN WalkBvh ELSE PoseBvh]

MissingPaths == Paths \ DOMAIN FileSystem

\* path.exists()
PathExistsAlways(p) == TRUE

PathExists(p) == p \in DOMAIN FileSystem

-----------------------------------------------------------------------------
(* build_tree: one QTreeWidgetItem per visited node, appended to items in   *)
(* post-order; addChild sets the child's parent.  An item is                *)
(* [gen, node, par]: gen tells the open call that created it.               *)

ChildVisitedAlways(child) == TRUE

\* if (child.name):
ChildVisited(child) == child.name # ""

\* item.addChild(child_item): the child item is the last one appended.
AddChild(items, parent) == [items EXCEPT ![Len(items)].par = parent]

RECURSIVE build_tree(_, _, _)
RECURSIVE build_children(_, _, _, _)

build_children(bvh, gen, n, kids) ==
    IF kids = <<>> THEN <<>>
    ELSE LET child == Head(kids)
             here == IF ChildVisited(bvh.nodes[child])
                     THEN AddChild(build_tree(bvh, gen, child), n)
                     ELSE <<>>
         IN here \o build_children(bvh, gen, n, Tail(kids))

build_tree(bvh, gen, n) ==
    build_children(bvh, gen, n, bvh.nodes[n].children)
        \o <<[gen |-> gen, node |-> n, par |-> NoParent]>>

InsertSkipsNever(item) == FALSE

\* QTreeWidget.insertTopLevelItems leaves out an item that already has a
\* parent ("items already in a tree will not be inserted").
InsertSkips(item) == item.par # NoParent

insertTopLevelItems(top, index, items) ==
    LET accepted == SelectSeq(items, LAMBDA it : ~InsertSkips(it))
    IN SubSeq(top, 1, index) \o accepted \o SubSeq(top, index + 1, Len(top))

RECURSIVE TopAncestor(_, _)
TopAncestor(it, all) ==
    IF it.par = NoParent THEN it
    ELSE TopAncestor(CHOOSE p \in all : p.node = it.par, all)

\* The items the view shows: the top-level items and their descendants.
ItemsInView(top, items) ==
    Range(top) \cup
    {it \in Range(items) : TopAncestor(it, Range(items)) \in Range(top)}

-----------------------------------------------------------------------------
(* QProgressBar                                                             *)

\* setRange(0, maximum): a value outside the new range is reset (minimum-1).
SetRange(bar, maximum) ==
    IF maximum = bar.maximum THEN bar
    ELSE [bar EXCEPT !.maximum = maximum,
                     !.value = IF bar.value > maximum THEN -1 ELSE bar.value]

\* setValue(v): ignored outside the range, unless the range is 0..0.
SetValue(bar, v) ==
    IF (v > bar.maximum \/ v < 0) /\ bar.maximum # 0 THEN bar
    ELSE [bar EXCEPT !.value = v]

-----------------------------------------------------------------------------
(* State of MainWidget and its Playback                                     *)

VARIABLES
    title,          \* window title
    docks,          \* self.docks: area -> dock (an index of dockWidgets)
    dockWidgets,    \* every QDockWidget added to the window, in order
    tree,           \* self.tree: None or the QTreeWidget (its number)
    treeCreated,    \* QTreeWidget objects constructed
    treeTop,        \* the tree widget's top-level items, in order
    treeItems,      \* every item the tree widget shows
    playback,       \* self.playback: None or the Playback (its number)
    playbackCreated,\* Playback objects constructed
    progressBar,    \* playback.progressBar: [maximum, value]
    timelines,      \* the QTimeLine objects set_bvh built: [frames, state, frame]
    clicked,        \* slots of start.clicked: the timelines whose start is connected
    frame_changed,  \* connections of playback.frame_changed to MainWidget.set_frame
    bvh_scene,      \* self.bvh_scene: None or the BvhScene (its number)
    sceneCreated,   \* BvhScene objects constructed
    scenes,         \* scenes pushed to the GL controller, in order
    cameras,        \* per pushed scene, its view's camera: [z_far, distance]
    loaded,         \* the path whose Bvh bvh_scene.load was last given
    sceneFrame,     \* the frame bvh_scene.set_frame was last given
    opens,          \* successful open calls so far
    last            \* what the last handler did (history)

widgetVars ==
    <<title, docks, dockWidgets, tree, treeCreated, treeTop, treeItems, playback,
      playbackCreated, progressBar, timelines, clicked, frame_changed, bvh_scene,
      sceneCreated, scenes, cameras, loaded, sceneFrame, opens>>

NoCall ==
    [op |-> "init", path |-> NoPath, outcome |-> "returned", repaints |-> 0,
     started |-> <<>>, emits |-> <<>>]

\* MainWidget.__init__
InitWidget ==
    /\ title = "bvh view"
    /\ docks = [a \in {"right"} |-> 1]
    /\ dockWidgets = <<[area |-> "right", name |-> "humanoid"]>>
    /\ tree = None
    /\ treeCreated = 0
    /\ treeTop = <<>>
    /\ treeItems = {}
    /\ playback = None
    /\ playbackCreated = 0
    /\ progressBar = [maximum |-> DefaultMaximum, value |-> -1]
    /\ timelines = <<>>
    /\ clicked = <<>>
    /\ frame_changed = 0
    /\ bvh_scene = None
    /\ sceneCreated = 0
    /\ scenes = <<"humanoid">>
    /\ cameras = <<[z_far |-> 1, distance |-> 1]>>
    /\ loaded = NoPath
    /\ sceneFrame = 0
    /\ opens = 0
    /\ last = NoCall

IsUnsetAlways(x) == TRUE

\* "if not self.tree", "if not self.playback", "if not self.bvh_scene"
IsUnset(x) == x = None

\* _create_dock: the new dock's number is its place in dockWidgets.
DocksAfter(ds, area, dock) ==
    [a \in DOMAIN ds \cup {area} |-> IF a = area THEN dock ELSE ds[a]]

\* The slots of one QTimeLine.frameChanged(f), in connection order:
\* progressBar.setValue, then playback.frame_changed, whose every connection
\* calls MainWidget.set_frame.
SetFrameCalls(conns) == conns

Emission(i, f) == [tl |-> i, frame |-> f, setFrame |-> SetFrameCalls(frame_changed)]

\* MainWidget.set_frame run for every connection of frame_changed
SceneFrameAfter(f) ==
    IF frame_changed > 0 /\ ~IsUnset(bvh_scene) THEN f ELSE sceneFrame

\* MainWidget.open(path)
Open(path) ==
    /\ opens < MaxOpens \/ path \in MissingPaths
    /\ IF ~PathExists(path)
       THEN /\ last' = [NoCall EXCEPT !.op = "open", !.path = path]
            /\ UNCHANGED widgetVars
       ELSE IF path \notin DOMAIN FileSystem
       THEN \* path.read_text raises FileNotFoundError
            /\ last' = [NoCall EXCEPT !.op = "open", !.path = path,
                                      !.outcome = "raised"]
            /\ UNCHANGED widgetVars
       ELSE LET bvh == FileSystem[path]
                items == build_tree(bvh, opens + 1, bvh.root)
                newTree == IsUnset(tree)
                newScene == IsUnset(bvh_scene)
                newPlayback == IsUnset(playback)
                top == insertTopLevelItems(<<>>, 0, items)
                afterTree ==
                    IF newTree
                    THEN DocksAfter(docks, "left", Len(dockWidgets) + 1)
                    ELSE docks
                widgetsAfterTree ==
                    IF newTree
                    THEN Append(dockWidgets, [area |-> "left", name |-> "bvh"])
                    ELSE dockWidgets
                \* a new Playback has a new bar, a new button and a new signal
                bar == IF newPlayback
                       THEN [maximum |-> DefaultMaximum, value |-> -1]
                       ELSE progressBar
                lines == IF newPlayback THEN <<>> ELSE timelines
                slots == IF newPlayback THEN <<>> ELSE clicked
                conns == IF newPlayback THEN 0 ELSE frame_changed
            IN /\ title' = path
               /\ tree' = IF newTree THEN treeCreated + 1 ELSE tree
               /\ treeCreated' = IF newTree THEN treeCreated + 1 ELSE treeCreated
               /\ treeTop' = top
               /\ treeItems' = ItemsInView(top, items)
               /\ bvh_scene' = IF newScene THEN sceneCreated + 1 ELSE bvh_scene
               /\ sceneCreated' = IF newScene THEN sceneCreated + 1 ELSE sceneCreated
               /\ scenes' = IF newScene THEN Append(scenes, "bvh") ELSE scenes
               /\ cameras' =
                    IF newScene
                    THEN Append(cameras, [z_far |-> 1 * CameraScale,
                                          distance |-> 1 * CameraScale])
                    ELSE cameras
               /\ playback' = IF newPlayback THEN playbackCreated + 1 ELSE playback
               /\ playbackCreated' =
                    IF newPlayback THEN playbackCreated + 1 ELSE playbackCreated
               /\ dockWidgets' =
                    IF newPlayback
                    THEN Append(widgetsAfterTree,
                                [area |-> "bottom", name |-> "timeline"])
                    ELSE widgetsAfterTree
               /\ docks' =
                    IF newPlayback
                    THEN DocksAfter(afterTree, "bottom", Len(widgetsAfterTree) + 1)
                    ELSE afterTree
               \* playback.set_bvh(bvh)
               /\ progressBar' = SetRange(bar, bvh.frames)
               /\ timelines' = Append(lines, [frames |-> bvh.frames,
                                              state |-> "NotRunning",
                                              frame |-> 0])
               /\ clicked' = Append(slots, Len(lines) + 1)
               \* playback.frame_changed.connect(self.set_frame)
               /\ frame_changed' = conns + 1
               \* self.bvh_scene.load(bvh) ; self.glwidget.repaint()
               /\ loaded' = path
               /\ sceneFrame' = sceneFrame
               /\ opens' = opens + 1
               /\ last' = [NoCall EXCEPT !.op = "open", !.path = path,
                                         !.repaints = 1]

\* QTimeLine.start(): nothing when already running; otherwise the time goes
\* back to 0 (frameChanged(0) when the frame was not 0) and the timer runs.
Starts(i) == timelines[i].state = "NotRunning"

\* A click on Start: start.clicked runs every connected timeLine.start.
ClickStart ==
    /\ playback # None
    /\ LET started == SelectSeq(clicked, Starts)
           rewound == SelectSeq(started, LAMBDA i : timelines[i].frame # 0)
           emits == [k \in 1..Len(rewound) |-> Emission(rewound[k], 0)]
       IN /\ timelines' =
                [i \in 1..Len(timelines) |->
                    IF i \in Range(started)
                    THEN [timelines[i] EXCEPT !.state = "Running", !.frame = 0]
                    ELSE timelines[i]]
          /\ progressBar' = IF emits = <<>> THEN progressBar
                            ELSE SetValue(progressBar, 0)
          /\ sceneFrame' = IF emits = <<>> THEN sceneFrame ELSE SceneFrameAfter(0)
          /\ last' = [NoCall EXCEPT !.op = "click", !.started = started,
                                    !.emits = emits,
                                    !.repaints = Len(emits) * frame_changed]
    /\ UNCHANGED <<title, docks, dockWidgets, tree, treeCreated, treeTop,
                   treeItems, playback, playbackCreated, clicked, frame_changed,
                   bvh_scene, sceneCreated, scenes, cameras, loaded, opens>>

\* The GUI timer of running timeline i fires: the frame moves on to f (frames
\* may be skipped); frameChanged(f) is emitted when it changed; at the end
\* frame the timeline stops.
Tick(i, f) ==
    /\ timelines[i].state = "Running"
    /\ f >= timelines[i].frame
    /\ f > timelines[i].frame \/ f = timelines[i].frames
    /\ LET changed == f # timelines[i].frame
       IN /\ timelines' =
                [timelines EXCEPT ![i].frame = f,
                                  ![i].state = IF f = timelines[i].frames
                                               THEN "NotRunning" ELSE "Running"]
          /\ progressBar' = IF changed THEN SetValue(progressBar, f)
                            ELSE progressBar
          /\ sceneFrame' = IF changed THEN SceneFrameAfter(f) ELSE sceneFrame
          /\ last' = [NoCall EXCEPT
                        !.op = "tick",
                        !.emits = IF changed THEN <<Emission(i, f)>> ELSE <<>>,
                        !.repaints = IF changed THEN frame_changed ELSE 0]
    /\ UNCHANGED <<title, docks, dockWidgets, tree, treeCreated, treeTop,
                   treeItems, playback, playbackCreated, clicked, frame_changed,
                   bvh_scene, sceneCreated, scenes, cameras, loaded, opens>>

-----------------------------------------------------------------------------
(* HandLandmark.estimate                                                    *)

\* What the camera delivers: image 0 stands for None (a failed read).  A
\* landmark list is a sequence of points; the model's lists have one point.
NoImage == 0
Images == 1..3

\* hands.process(image): the detected hands, as the 2D lists
\* (multi_hand_landmarks) and the world lists (multi_hand_world_landmarks);
\* None is the empty sequence.
Process(img) ==
    CASE img = 2 -> [hands |-> << <<21>> >>, world |-> << <<121>> >>]
      [] img = 3 -> [hands |-> << <<31>>, <<32>> >>,
                     world |-> << <<131>>, <<132>> >>]
      [] OTHER -> [hands |-> <<>>, world |-> <<>>]

VARIABLES
    hpc,            \* where the coroutine is
    inflight,       \* cap.read calls running in the thread pool
    result,         \* what the awaited future holds: [ready, success, image]
    image,          \* the frame being dispatched
    texture,        \* the image capture.rect.update_capture_texture was given
    results,        \* what hands.process returned for the frame
    idx,            \* position of the for loop that runs
    points,         \* the list capture.points.update was last given
    landmark,       \* self.landmark
    sceneHand,      \* the list scene.hand.update was last given
    handUpdated,    \* scene.hand.update has been called
    pointsLog,      \* capture.points.update calls of this frame (history)
    handLog,        \* scene.hand.update calls of this frame (history)
    processCalls,   \* hands.process calls so far (history)
    reads,          \* cap.read calls issued so far (history)
    handled,        \* reads whose iteration has ended (history)
    fails,          \* failed reads in a row (history)
    undispatched    \* a frame was read and its dispatch has not ended (history)

handVars ==
    <<hpc, inflight, result, image, texture, results, idx, points, landmark,
      sceneHand, handUpdated, pointsLog, handLog, processCalls, reads, handled,
      fails, undispatched>>

sceneState == <<texture, points, landmark, sceneHand, handUpdated, processCalls>>

vars == <<widgetVars, last, handVars>>

NoResult == [ready |-> FALSE, success |-> FALSE, image |-> NoImage]

\* HandLandmark.__init__, and estimate up to the first "while True"
InitHand ==
    /\ hpc = "loop"
    /\ inflight = 0
    /\ result = NoResult
    /\ image = NoImage
    /\ texture = NoImage
    /\ results = Process(NoImage)
    /\ idx = 0
    /\ points = <<>>
    /\ landmark = <<>>
    /\ sceneHand = <<>>
    /\ handUpdated = FALSE
    /\ pointsLog = <<>>
    /\ handLog = <<>>
    /\ processCalls = 0
    /\ reads = 0
    /\ handled = 0
    /\ fails = 0
    /\ undispatched = FALSE

IssuesReadEarly(pc) == pc \in {"loop", "process"}

\* The one place of the loop that calls asyncio.to_thread(cap.read)
IssuesRead(pc) == pc = "loop"

\* await asyncio.to_thread(cap.read): the read starts in the pool and the
\* coroutine is suspended.
IssueRead ==
    /\ IssuesRead(hpc)
    /\ reads < MaxReads
    /\ inflight' = inflight + 1
    /\ reads' = reads + 1
    /\ hpc' = "await"
    /\ UNCHANGED <<result, image, texture, results, idx, points, landmark,
                   sceneHand, handUpdated, pointsLog, handLog, processCalls,
                   handled, fails, undispatched>>

\* cap.read returns in its thread: (False, None) or (True, image).
ReadReturns(success, img) ==
    /\ inflight > 0
    /\ inflight' = inflight - 1
    /\ result' = [ready |-> TRUE, success |-> success,
                  image |-> IF success THEN img ELSE NoImage]
    /\ UNCHANGED <<hpc, image, texture, results, idx, points, landmark,
                   sceneHand, handUpdated, pointsLog, handLog, processCalls,
                   reads, handled, fails, undispatched>>

FrameIgnoredNever(success) == FALSE

\* if not success: ... continue
FrameIgnored(success) == ~success

\* The coroutine resumes with the read's result.
Resume ==
    /\ hpc = "await"
    /\ result.ready
    /\ result' = NoResult
    /\ IF FrameIgnored(result.success)
       THEN /\ hpc' = "loop"
            /\ handled' = handled + 1
            /\ fails' = fails + 1
            /\ UNCHANGED <<image, pointsLog, handLog, undispatched>>
       ELSE /\ hpc' = "texture"
            /\ image' = result.image
            /\ pointsLog' = <<>>
            /\ handLog' = <<>>
            /\ undispatched' = TRUE
            /\ UNCHANGED <<handled, fails>>
    /\ UNCHANGED <<inflight, texture, results, idx, points, landmark, sceneHand,
                   handUpdated, processCalls, reads>>

\* self.capture.rect.update_capture_texture(image)
UpdateTexture ==
    /\ hpc = "texture"
    /\ texture' = image
    /\ hpc' = "process"
    /\ UNCHANGED <<inflight, result, image, results, idx, points, landmark,
                   sceneHand, handUpdated, pointsLog, handLog, processCalls,
                   reads, handled, fails, undispatched>>

\* results = hands.process(image)
ProcessImage ==
    /\ hpc = "process"
    /\ results' = Process(image)
    /\ processCalls' = processCalls + 1
    /\ idx' = 1
    /\ hpc' = "points"
    /\ UNCHANGED <<inflight, result, image, texture, points, landmark, sceneHand,
                   handUpdated, pointsLog, handLog, reads, handled, fails,
                   undispatched>>

\* for hand_landmarks in results.multi_hand_landmarks:
\*     self.capture.points.update(hand_landmarks.landmark)
UpdatePoints ==
    /\ hpc = "points"
    /\ IF idx <= Len(results.hands)
       THEN /\ points' = results.hands[idx]
            /\ pointsLog' = Append(pointsLog, results.hands[idx])
            /\ idx' = idx + 1
            /\ hpc' = hpc
       ELSE /\ idx' = 1
            /\ hpc' = "world"
            /\ UNCHANGED <<points, pointsLog>>
    /\ UNCHANGED <<inflight, result, image, texture, results, landmark,
                   sceneHand, handUpdated, handLog, processCalls, reads, handled,
                   fails, undispatched>>

LandmarkFromImageList(res, i) == res.hands[i]

\* self.landmark = hand_landmarks.landmark
LandmarkAssigned(res, i) == res.world[i]

\* for hand_landmarks in results.multi_hand_world_landmarks:
\*     self.landmark = hand_landmarks.landmark
\*     self.scene.hand.update(hand_landmarks.landmark)
\* and, after the last one, back to the top of the loop.
UpdateWorld ==
    /\ hpc = "world"
    /\ IF idx <= Len(results.world)
       THEN /\ landmark' = LandmarkAssigned(results, idx)
            /\ sceneHand' = results.world[idx]
            /\ handUpdated' = TRUE
            /\ handLog' = Append(handLog, results.world[idx])
            /\ idx' = idx + 1
            /\ UNCHANGED <<hpc, handled, fails, undispatched>>
       ELSE /\ hpc' = "loop"
            /\ handled' = handled + 1
            /\ fails' = 0
            /\ undispatched' = FALSE
            /\ idx' = 0
            /\ UNCHANGED <<landmark, sceneHand, handUpdated, handLog>>
    /\ UNCHANGED <<inflight, result, image, texture, results, points, pointsLog,
                   processCalls, reads>>

-----------------------------------------------------------------------------
(* Specifications                                                           *)

Init == InitWidget /\ InitHand

Next ==
    \/ \E path \in Paths : Open(path) /\ UNCHANGED handVars
    \/ ClickStart /\ UNCHANGED handVars
    \/ \E i \in 1..Len(timelines) : \E f \in 0..timelines[i].frames :
          Tick(i, f) /\ UNCHANGED handVars

Spec == Init /\ [][Next]_vars

NextHand ==
    \/ IssueRead /\ UNCHANGED <<widgetVars, last>>
    \/ \E success \in BOOLEAN : \E img \in Images :
          ReadReturns(success, img) /\ UNCHANGED <<widgetVars, last>>
    \/ Resume /\ UNCHANGED <<widgetVars, last>>
    \/ UpdateTexture /\ UNCHANGED <<widgetVars, last>>
    \/ ProcessImage /\ UNCHANGED <<widgetVars, last>>
    \/ UpdatePoints /\ UNCHANGED <<widgetVars, last>>
    \/ UpdateWorld /\ UNCHANGED <<widgetVars, last>>

SpecHand == Init /\ [][NextHand]_vars

-----------------------------------------------------------------------------
(* Properties of MainWidget and Playback (under Spec)                       *)

\* The nodes of a Bvh reachable from its root through children with a
\* non-empty name, and a node's parent, read off the hierarchy itself.
RECURSIVE ReachableNamed(_, _)
ReachableNamed(bvh, S) ==
    LET T == S \cup {c \in DOMAIN bvh.nodes :
                        /\ bvh.nodes[c].name # ""
                        /\ \E n \in S : c \in Range(bvh.nodes[n].children)}
    IN IF T = S THEN S ELSE ReachableNamed(bvh, T)

BvhParent(bvh, n) ==
    IF n = bvh.root THEN NoParent
    ELSE CHOOSE m \in DOMAIN bvh.nodes : n \in Range(bvh.nodes[m].children)

\* C1: after a successful open the tree widget mirrors the parsed hierarchy:
\* one top-level item, the root's; every node reachable from the root through
\* non-empty-named children is shown by exactly one item, under the item of
\* its Bvh parent; nothing else is shown, in particular no empty-named child,
\* nothing below one, and no item of an earlier open.
C1_TreeMirrorsHierarchy ==
    opens > 0 =>
        LET bvh == FileSystem[loaded]
            shown == ReachableNamed(bvh, {bvh.root})
        IN /\ Len(treeTop) = 1
           /\ treeTop[1].node = bvh.root
           /\ treeTop[1].par = NoParent
           /\ \A n \in shown :
                /\ Cardinality({it \in treeItems : it.node = n}) = 1
                /\ \A it \in treeItems : it.node = n => it.par = BvhParent(bvh, n)
           /\ \A it \in treeItems : it.node \in shown /\ it.gen = opens

\* A second file was opened, and it is the one with an empty-named child
\* that has a subtree.
C1_Witness ==
    /\ opens >= 2
    /\ loaded = "walk.bvh"
    /\ Cardinality(treeItems) = 4

\* C2: every frame change a timeline emits invokes MainWidget.set_frame
\* exactly once, however many files were opened before.
C2_OneSetFramePerFrameChange ==
    \A k \in 1..Len(last.emits) : last.emits[k].setFrame = 1

\* C3: a click on Start starts no timeline but the one built by the latest
\* set_bvh (and starts that one unless it is running), and only that
\* timeline emits frame changes.
C3_ClickStartsLatestOnly ==
    /\ last.op = "click" =>
          /\ Range(last.started) \subseteq {Len(timelines)}
          /\ timelines[Len(timelines)].state = "Running"
    /\ \A k \in 1..Len(last.emits) : last.emits[k].tl = Len(timelines)

\* C6: every frame number delivered to the progress bar and to set_frame
\* lies in 0..frames of the Bvh loaded in bvh_scene, which is the range of
\* the progress bar.
C6_FramesInLoadedRange ==
    opens > 0 =>
        /\ progressBar.maximum = FileSystem[loaded].frames
        /\ \A k \in 1..Len(last.emits) :
              last.emits[k].frame \in 0..FileSystem[loaded].frames

\* C8: open with a path that does not exist returns and changes nothing:
\* title, tree, docks, scene, pushed scenes, playback and its connections
\* stay as they were and no repaint is requested.
C8_MissingPathNoEffect ==
    [][(last'.op = "open" /\ last'.path \in MissingPaths) =>
          /\ UNCHANGED widgetVars
          /\ last'.outcome = "returned"
          /\ last'.repaints = 0]_vars

\* A missing path was opened after a file had been opened.
C8_Witness ==
    /\ last.op = "open"
    /\ last.path \in MissingPaths
    /\ opens > 0
    /\ title # "bvh view"

\* C9: tree widget, Playback and BvhScene are created at most once; the
\* BvhScene is pushed to the GL controller once and its camera is scaled by
\* 100 once; there is one dock per area (right humanoid, left bvh, bottom
\* timeline); every successful open reuses the objects and loads its Bvh.
C9_CreatedOnce ==
    /\ treeCreated <= 1 /\ playbackCreated <= 1 /\ sceneCreated <= 1
    /\ Cardinality({k \in 1..Len(scenes) : scenes[k] = "bvh"}) = sceneCreated
    /\ Len(cameras) = Len(scenes)
    /\ \A k \in 1..Len(scenes) :
          scenes[k] = "bvh" =>
              cameras[k] = [z_far |-> CameraScale, distance |-> CameraScale]
    /\ Len(dockWidgets) = Cardinality(DOMAIN docks)
    /\ \A a \in DOMAIN docks :
          dockWidgets[docks[a]] =
              [area |-> a,
               name |-> CASE a = "right" -> "humanoid"
                          [] a = "left" -> "bvh"
                          [] a = "bottom" -> "timeline"]
    /\ opens > 0 => tree = 1 /\ playback = 1 /\ bvh_scene = 1
    /\ (last.op = "open" /\ last.path \notin MissingPaths) => loaded = last.path

\* A file was opened after another one.
C9_Witness ==
    /\ opens >= 2
    /\ last.op = "open"
    /\ last.path = "pose.bvh"
    /\ Len(dockWidgets) = 3

-----------------------------------------------------------------------------
(* Properties of HandLandmark.estimate (under SpecHand)                     *)

Dispatching == hpc \in {"texture", "process", "points", "world"}

\* C4: at most one cap.read is outstanding; while one is, the coroutine is
\* suspended on it and no frame is half dispatched; a frame is dispatched only
\* with no read outstanding and no result waiting; reads and handled frames
\* alternate.
C4_SequentialReadDispatch ==
    /\ inflight <= 1
    /\ inflight = 1 => hpc = "await" /\ ~result.ready /\ ~undispatched
    /\ hpc # "await" => inflight = 0 /\ ~result.ready
    /\ undispatched <=> Dispatching
    /\ reads = handled + (IF hpc = "loop" THEN 0 ELSE 1)

\* A read is outstanding after an earlier frame with a hand was dispatched.
C4_Witness ==
    /\ reads >= 2
    /\ inflight = 1
    /\ handLog # <<>>

\* C5: between frames, the calls of the latest read frame were the 2D lists
\* to capture.points.update and the world lists to scene.hand.update, each
\* in reported order, and self.landmark is the empty list while
\* scene.hand.update was never called and else the list it was last given.
C5_LandmarkRepublished ==
    (hpc \in {"loop", "await"}) =>
        /\ IF handUpdated THEN landmark = sceneHand ELSE landmark = <<>>
        /\ image # NoImage =>
              /\ texture = image
              /\ pointsLog = Process(image).hands
              /\ handLog = Process(image).world
              /\ handLog # <<>> => landmark = Last(handLog)

\* A frame without hands was handled after a frame with two hands.
C5_Witness ==
    /\ hpc = "loop"
    /\ image = 1
    /\ landmark = <<132>>
    /\ sceneHand = <<132>>

\* C7: when the awaited read reports no success, the coroutine's step
\* changes neither the capture texture, the capture points, self.landmark nor
\* the scene, calls no hands.process, and is back at the top of the loop,
\* where the next read is issued.
C7_EmptyFrameIgnored ==
    [][(hpc = "await" /\ result.ready /\ ~result.success /\ hpc' # hpc) =>
          /\ hpc' = "loop"
          /\ UNCHANGED sceneState
          /\ UNCHANGED <<image, pointsLog, handLog>>]_vars

\* A read is outstanding after two failed reads in a row that followed a
\* detection.
C7_Witness ==
    /\ fails >= 2
    /\ hpc = "await"
    /\ handUpdated

=============================================================================
